---- MODULE Spec2Model ----
(***************************************************************************)
(* Model of the RCON client of server-config.py (class RCONClient) and of  *)
(* its two callers, stop_server and send_rcon_command.                      *)
(*                                                                         *)
(* Bytes are naturals 0..255, byte strings are sequences of bytes, Python  *)
(* str values are sequences of Unicode code points.  The peer (the game    *)
(* server's RCON port) is the environment: what it puts on the wire, how   *)
(* the bytes are cut into reads and how the exchange ends are inputs.      *)
(***************************************************************************)
EXTENDS Integers, Sequences, FiniteSets, TLC

VARIABLES
    client,   \* the RCONClient object: host, port, password, socket, request_id
    socks,    \* the socket objects created so far; self.socket = k names socks[k]
    net,      \* the environment's behaviour during the latest method call
    last,     \* the latest RCONClient method call and how it ended
    caller,   \* the calling function: which one, where it stands, its result
    fs,       \* the server directory and the MCC repository on disk
    run       \* the latest call of a mode, world, mod or version function

vars == <<client, socks, net, last, caller, fs, run>>

\* the RCON functions touch no file; the file functions open no connection
rconVars == <<client, socks, net, last, caller>>
hostVars == <<fs, run>>

-----------------------------------------------------------------------------
(* The server directory (SCRIPT_DIR) and the MCC repository (MCC_DIR).     *)
(*                                                                         *)
(* fs.files maps a path to its content, "absent" when it does not exist;   *)
(* a world folder is one path.  mods/ is a set of file names, some of them *)
(* held open by another process (os.remove raises PermissionError).        *)

Absent == "absent"

SERVER_PROPERTIES == "server.properties"
PROPS_PRODUCTION == "server.properties.production"
PROPS_FRESH == "server.properties.fresh"
PROPS_VANILLA == "server.properties.vanilla"
PACKWIZ_BOOTSTRAP == "packwiz-installer-bootstrap.jar"
PACKWIZ_BOOTSTRAP_DISABLED == "packwiz-installer-bootstrap.jar.disabled"
PACKWIZ_JSON == "packwiz.json"
PACKWIZ_JSON_BACKUP == "packwiz.json.backup"

\* world_pairs: (backup, working)
world_pairs ==
    << <<"world-production", "world-local">>,
       <<"world-production_nether", "world-local_nether">>,
       <<"world-production_the_end", "world-local_the_end">> >>

BackupDirs == {world_pairs[i][1] : i \in DOMAIN world_pairs}
WorkingDirs == {world_pairs[i][2] : i \in DOMAIN world_pairs}
PackwizFiles ==
    {PACKWIZ_BOOTSTRAP, PACKWIZ_BOOTSTRAP_DISABLED, PACKWIZ_JSON, PACKWIZ_JSON_BACKUP}
PropsFiles == {SERVER_PROPERTIES, PROPS_PRODUCTION, PROPS_FRESH, PROPS_VANILLA}
Paths == PropsFiles \cup PackwizFiles \cup BackupDirs \cup WorkingDirs

\* MCC-*.mrpack in MCC_DIR: whether one is there, whether it opens as a zip
\* with a manifest, the jars under overrides/mods/ and the manifest's files
NoPack == [present |-> FALSE, readable |-> FALSE, bundled |-> {}, manifest |-> {}]

\* the MCC git repository: tags, the tag HEAD is at, uncommitted changes to
\* tracked files, untracked files, entries on the stash
NoRepo ==
    [tags |-> {}, head |-> <<"m", "a", "i", "n">>, tracked |-> FALSE,
     untracked |-> FALSE, stashed |-> 0]

\* an empty directory
NoFs ==
    [platform |-> "posix",
     files |-> [p \in Paths |-> Absent],
     mods_dir |-> FALSE, mods |-> {}, locked |-> {},
     pack |-> NoPack,
     repo |-> NoRepo]

\* a function call: its name, what the environment answered during it, what
\* it returned ("True", "False", or "raise" when an exception escaped), the
\* steps it performed, the disk before it
Ran(fn, arg, ret, did, before) ==
    [fn |-> fn, arg |-> arg, ret |-> ret, did |-> did, before |-> before]

NoRun == Ran("none", <<>>, "none", {}, NoFs)

-----------------------------------------------------------------------------
(* Bounds of the model.                                                    *)

MaxCalls == 2      \* invocations of stop_server / send_rcon_command per run
MaxOps == 4        \* method calls on one client in the free-use specification
MaxText == 1       \* code points in a reply payload the peer sends

-----------------------------------------------------------------------------
(* Configuration and protocol constants.                                   *)

SERVERDATA_AUTH == 3
SERVERDATA_AUTH_RESPONSE == 2
SERVERDATA_EXECCOMMAND == 2
SERVERDATA_RESPONSE_VALUE == 0
RCON_PORT == 25575
SERVER_PORT == 25565
SOCKET_TIMEOUT == 5

\* "127.0.0.1"
RCON_HOST == <<49, 50, 55, 46, 48, 46, 48, 46, 49>>
\* "testpassword"
RCON_PASSWORD == <<116, 101, 115, 116, 112, 97, 115, 115, 119, 111, 114, 100>>
\* "stop"
STOP_COMMAND == <<115, 116, 111, 112>>

None == 0          \* self.socket = None (socket objects are numbered from 1)

-----------------------------------------------------------------------------
(* Python and struct helpers.                                              *)

Min(a, b) == IF a <= b THEN a ELSE b
Max(a, b) == IF a >= b THEN a ELSE b

\* data[start:stop] with Python's treatment of negative and oversized indices
PySlice(data, start, stop) ==
    LET n == Len(data)
        norm(i) == IF i < 0 THEN Max(n + i, 0) ELSE Min(i, n)
        s == norm(start)
        e == norm(stop)
    IN  IF s < e THEN SubSeq(data, s + 1, e) ELSE <<>>

\* struct.pack('<i', v): four bytes, little-endian two's complement
PackInt32LE(v) ==
    LET m == IF v >= 0 THEN v ELSE (v + 2147483647) + 1
        top == (m \div 16777216) % 128
    IN  << m % 256,
           (m \div 256) % 256,
           (m \div 65536) % 256,
           IF v >= 0 THEN top ELSE top + 128 >>

\* struct.unpack('<i', b)[0] for a four-byte b
UnpackInt32LE(b) ==
    LET low == b[1] + 256 * b[2] + 65536 * b[3] + 16777216 * (b[4] % 128)
    IN  IF b[4] >= 128 THEN (low - 2147483647) - 1 ELSE low

\* one code point as UTF-8 (str.encode('utf-8'))
Utf8Char(cp) ==
    IF cp < 128 THEN <<cp>>
    ELSE IF cp < 2048 THEN <<192 + (cp \div 64), 128 + (cp % 64)>>
    ELSE IF cp < 65536
         THEN <<224 + (cp \div 4096), 128 + ((cp \div 64) % 64), 128 + (cp % 64)>>
         ELSE <<240 + (cp \div 262144), 128 + ((cp \div 4096) % 64),
                128 + ((cp \div 64) % 64), 128 + (cp % 64)>>

RECURSIVE Utf8Encode(_)
Utf8Encode(s) ==
    IF s = <<>> THEN <<>> ELSE Utf8Char(Head(s)) \o Utf8Encode(Tail(s))

IsCont(b) == b >= 128 /\ b <= 191

\* bytes.decode('utf-8'), strict: [ok |-> FALSE] stands for UnicodeDecodeError
RECURSIVE Utf8Decode(_)
Utf8Decode(b) ==
    IF b = <<>> THEN [ok |-> TRUE, str |-> <<>>]
    ELSE
      LET b1 == b[1]
          n  == Len(b)
          step(k, cp) ==
              LET rest == Utf8Decode(SubSeq(b, k + 1, n))
              IN  IF rest.ok THEN [ok |-> TRUE, str |-> <<cp>> \o rest.str]
                  ELSE [ok |-> FALSE, str |-> <<>>]
          bad == [ok |-> FALSE, str |-> <<>>]
      IN  IF b1 < 128 THEN step(1, b1)
          ELSE IF b1 >= 194 /\ b1 <= 223
          THEN IF n >= 2 /\ IsCont(b[2])
               THEN step(2, (b1 - 192) * 64 + (b[2] - 128))
               ELSE bad
          ELSE IF b1 >= 224 /\ b1 <= 239
          THEN IF /\ n >= 3 /\ IsCont(b[2]) /\ IsCont(b[3])
                  /\ (b1 = 224 => b[2] >= 160)
                  /\ (b1 = 237 => b[2] <= 159)
               THEN step(3, (b1 - 224) * 4096 + (b[2] - 128) * 64 + (b[3] - 128))
               ELSE bad
          ELSE IF b1 >= 240 /\ b1 <= 244
          THEN IF /\ n >= 4 /\ IsCont(b[2]) /\ IsCont(b[3]) /\ IsCont(b[4])
                  /\ (b1 = 240 => b[2] >= 144)
                  /\ (b1 = 244 => b[2] <= 143)
               THEN step(4, (b1 - 240) * 262144 + (b[2] - 128) * 4096
                              + (b[3] - 128) * 64 + (b[4] - 128))
               ELSE bad
          ELSE bad

-----------------------------------------------------------------------------
(* RCONClient._encode_packet                                               *)

\* an encoder that pads the payload with one NUL byte
EncodePacketOnePad(request_id, packet_type, payload) ==
    LET payload_bytes == Utf8Encode(payload) \o <<0>>
        length == 4 + 4 + Len(payload_bytes)
    IN  PackInt32LE(length) \o PackInt32LE(request_id)
          \o PackInt32LE(packet_type) \o payload_bytes

\* an encoder whose length field counts the length prefix too
EncodePacketCountingPrefix(request_id, packet_type, payload) ==
    LET payload_bytes == Utf8Encode(payload) \o <<0, 0>>
        length == 4 + 4 + 4 + Len(payload_bytes)
    IN  PackInt32LE(length) \o PackInt32LE(request_id)
          \o PackInt32LE(packet_type) \o payload_bytes

EncodePacket(request_id, packet_type, payload) ==
    LET payload_bytes == Utf8Encode(payload) \o <<0, 0>>
        length == 4 + 4 + Len(payload_bytes)
    IN  PackInt32LE(length) \o PackInt32LE(request_id)
          \o PackInt32LE(packet_type) \o payload_bytes

-----------------------------------------------------------------------------
(* The environment: the peer behind the admin port and the TCP stream.     *)
(*                                                                         *)
(* A scenario is what the environment does during one call of connect or   *)
(* command:                                                                *)
(*   conn      how socket.connect ends ("ok", "refused")                   *)
(*   send      how socket.send ends ("ok", "error")                        *)
(*   frame     the bytes the peer means to send in reply                   *)
(*   delivered how many of them arrive before the peer goes quiet          *)
(*   ending    what follows the delivered bytes: "stall" (the peer stays   *)
(*             silent), "close" (FIN) or "reset" (RST)                     *)
(*   frag1/2   how many bytes the stream has ready at the first / second   *)
(*             recv call (TCP may hand over a reply in pieces)             *)
(***************************************************************************)

PeerChars == {65}
PeerIds == {-1, 1, 2}
PeerTypes == {SERVERDATA_RESPONSE_VALUE, SERVERDATA_AUTH_RESPONSE}
WholeRead == 64    \* a fragment size larger than any frame: nothing is split

RECURSIVE SeqsUpTo(_, _)
SeqsUpTo(S, n) ==
    IF n = 0 THEN {<<>>}
    ELSE LET shorter == SeqsUpTo(S, n - 1)
         IN  shorter \cup {Append(t, c) : t \in shorter, c \in S}

PeerTexts == SeqsUpTo(PeerChars, MaxText)

\* replies a conforming server can send, as <<requestId, type, payload>>
PeerReplies ==
    (PeerIds \X PeerTypes \X PeerTexts)
      \cup {<<1, SERVERDATA_RESPONSE_VALUE, <<233>>>>,      \* "e" acute
            <<2, SERVERDATA_RESPONSE_VALUE, <<79, 75>>>>}   \* "OK"

\* their wire format is that of _encode_packet
WellFormedFrames == {EncodePacket(r[1], r[2], r[3]) : r \in PeerReplies}

RawFrame(length, body) == PackInt32LE(length) \o body

\* replies that are not valid packets
MalformedFrames ==
    { \* payload 0xFF is not UTF-8
      RawFrame(11, PackInt32LE(1) \o PackInt32LE(0) \o <<255, 0, 0>>),
      RawFrame(11, PackInt32LE(-1) \o PackInt32LE(2) \o <<255, 0, 0>>),
      \* body without the two pad bytes
      RawFrame(8, PackInt32LE(1) \o PackInt32LE(0)),
      \* body of the request id alone
      RawFrame(4, PackInt32LE(2)),
      \* body too short for a request id
      RawFrame(2, <<1, 0>>),
      \* length 0 and a negative length
      RawFrame(0, <<>>),
      RawFrame(-1, <<>>) }

PeerFrames == WellFormedFrames \cup MalformedFrames

Cuts(frame) == {0, 2, 4, 7, 11, Len(frame) - 1} \cap (0 .. (Len(frame) - 1))

NoNet ==
    [conn |-> "none", send |-> "none", frame |-> <<>>, delivered |-> 0,
     ending |-> "stall", frag1 |-> WholeRead, frag2 |-> WholeRead]

\* the peer answers: in full (possibly handed over in pieces, possibly
\* followed by a close), or cut short
LiveScenarios ==
    {[NoNet EXCEPT !.conn = "ok", !.send = "ok", !.frame = f,
                   !.delivered = Len(f), !.frag1 = g1, !.frag2 = g2]
        : f \in PeerFrames, g1 \in {2, WholeRead}, g2 \in {2, 9, WholeRead}}
    \cup
    {[NoNet EXCEPT !.conn = "ok", !.send = "ok", !.frame = f,
                   !.delivered = Len(f), !.ending = "close"] : f \in PeerFrames}
    \cup
    UNION {{[NoNet EXCEPT !.conn = "ok", !.send = "ok", !.frame = f,
                          !.delivered = d, !.ending = e]
              : d \in Cuts(f), e \in {"stall", "close", "reset"}}
           : f \in PeerFrames}

\* the peer has closed or reset the connection earlier: nothing more arrives
DownScenarios(peer) ==
    {[NoNet EXCEPT !.conn = "ok", !.send = sd, !.ending = peer]
        : sd \in (IF peer = "close" THEN {"ok", "error"} ELSE {"error"})}

SendError == [NoNet EXCEPT !.conn = "ok", !.send = "error", !.ending = "reset"]
Refused == [NoNet EXCEPT !.conn = "refused"]

\* the free-use specification draws from a few representative exchanges
FewScenarios ==
    {[NoNet EXCEPT !.conn = "ok", !.send = "ok", !.frame = f, !.delivered = Len(f)]
        : f \in {EncodePacket(rid, SERVERDATA_AUTH_RESPONSE, <<>>) : rid \in {-1, 1}}
              \cup {EncodePacket(2, SERVERDATA_RESPONSE_VALUE, <<65>>)}}
    \cup {[NoNet EXCEPT !.conn = "ok", !.send = "ok"]}

ScenariosFor(peer, few) ==
    IF peer # "up" THEN DownScenarios(peer)
    ELSE IF few THEN FewScenarios \cup {SendError}
    ELSE LiveScenarios \cup {SendError}

-----------------------------------------------------------------------------
(* socket objects                                                          *)

NewSocket ==
    [state   |-> "new",       \* "new", "connected"
     closed  |-> FALSE,
     closes  |-> 0,           \* calls of socket.close() that released it
     timeout |-> None,        \* settimeout value; None is a blocking socket
     peer    |-> "up",        \* "up", "close", "reset"
     inbuf   |-> <<>>,        \* bytes delivered and not yet read
     log     |-> <<>>]        \* send and receive events, in order

SendEvent(packet) ==
    [ev |-> "send", bytes |-> packet, kind |-> "", request_id |-> 0,
     payload |-> <<>>, left |-> 0]

RecvEvent(res) ==
    [ev |-> "recv", bytes |-> <<>>, kind |-> res.kind,
     request_id |-> res.request_id, payload |-> res.payload,
     left |-> Len(res.rest)]       \* bytes of the stream left unread

\* socket.recv(n) on a stream holding buf, of which frag bytes are ready
Recv(buf, n, frag, ending, timeout) ==
    IF n < 0
    THEN [kind |-> "raise", exc |-> "ValueError", data |-> <<>>, rest |-> buf]
    ELSE IF n = 0
    THEN [kind |-> "data", exc |-> "", data |-> <<>>, rest |-> buf]
    ELSE IF buf # <<>>
    THEN LET k == Min(n, Min(frag, Len(buf)))
         IN  [kind |-> "data", exc |-> "", data |-> SubSeq(buf, 1, k),
              rest |-> SubSeq(buf, k + 1, Len(buf))]
    ELSE IF ending = "close"
    THEN [kind |-> "data", exc |-> "", data |-> <<>>, rest |-> buf]
    ELSE IF ending = "reset"
    THEN [kind |-> "raise", exc |-> "ConnectionResetError", data |-> <<>>, rest |-> buf]
    ELSE IF timeout = None
    THEN [kind |-> "block", exc |-> "", data |-> <<>>, rest |-> buf]
    ELSE [kind |-> "timeout", exc |-> "", data |-> <<>>, rest |-> buf]

-----------------------------------------------------------------------------
(* RCONClient                                                              *)

\* RCONClient.__init__
NewClient(host, port, password) ==
    [host |-> host, port |-> port, password |-> password,
     socket |-> None, request_id |-> 0]

\* the value a method call hands back to its caller
\*   outcome: "true", "false" (connect), "str", "none" (command),
\*            "void" (close), "raise" (an exception escapes),
\*            "block" (the call never returns)
Out(outcome, value, exc) == [outcome |-> outcome, value |-> value, exc |-> exc]

Response(kind, request_id, payload, exc, rest, recvs) ==
    [kind |-> kind, request_id |-> request_id, payload |-> payload,
     exc |-> exc, rest |-> rest, recvs |-> recvs]

\* a decoder that slices the payload as data[8:] and keeps the pad bytes
DecodeBodyKeepingPad(data, rest) ==
    IF Len(PySlice(data, 0, 4)) # 4
    THEN Response("raise", 0, <<>>, "struct.error", rest, 2)
    ELSE LET request_id == UnpackInt32LE(PySlice(data, 0, 4))
             text == Utf8Decode(PySlice(data, 8, Len(data)))
         IN  IF text.ok
             THEN Response("tuple", request_id, text.str, "", rest, 2)
             ELSE Response("raise", 0, <<>>, "UnicodeDecodeError", rest, 2)

\* the body of a packet, decoded: (request_id, payload) or the exception raised
DecodeBody(data, rest) ==
    IF Len(PySlice(data, 0, 4)) # 4
    THEN Response("raise", 0, <<>>, "struct.error", rest, 2)
    ELSE LET request_id == UnpackInt32LE(PySlice(data, 0, 4))
             text == Utf8Decode(PySlice(data, 8, -2))
         IN  IF text.ok
             THEN Response("tuple", request_id, text.str, "", rest, 2)
             ELSE Response("raise", 0, <<>>, "UnicodeDecodeError", rest, 2)

\* a receive without the len(length_data) < 4 test: a short prefix goes to
\* struct.unpack, which raises struct.error
ReceivePacketUnchecked(sock, scen) ==
    LET buf == sock.inbuf \o SubSeq(scen.frame, 1, scen.delivered)
        r1 == Recv(buf, 4, scen.frag1, scen.ending, sock.timeout)
    IN  IF r1.kind = "timeout" THEN Response("none", 0, <<>>, "", r1.rest, 1)
        ELSE IF r1.kind \in {"raise", "block"}
        THEN Response(r1.kind, 0, <<>>, r1.exc, r1.rest, 1)
        ELSE IF Len(r1.data) < 4
        THEN Response("raise", 0, <<>>, "struct.error", r1.rest, 1)
        ELSE LET length == UnpackInt32LE(r1.data)
                 r2 == Recv(r1.rest, length, scen.frag2, scen.ending, sock.timeout)
             IN  IF r2.kind = "timeout"
                 THEN Response("none", 0, <<>>, "", r2.rest, 2)
                 ELSE IF r2.kind \in {"raise", "block"}
                 THEN Response(r2.kind, 0, <<>>, r2.exc, r2.rest, 2)
                 ELSE DecodeBody(r2.data, r2.rest)

\* RCONClient._receive_packet on socket object sock while the environment
\* behaves as scen
ReceivePacket(sock, scen) ==
    LET buf == sock.inbuf \o SubSeq(scen.frame, 1, scen.delivered)
        r1 == Recv(buf, 4, scen.frag1, scen.ending, sock.timeout)
    IN  IF r1.kind = "timeout" THEN Response("none", 0, <<>>, "", r1.rest, 1)
        ELSE IF r1.kind \in {"raise", "block"}
        THEN Response(r1.kind, 0, <<>>, r1.exc, r1.rest, 1)
        ELSE IF Len(r1.data) < 4 THEN Response("none", 0, <<>>, "", r1.rest, 1)
        ELSE LET length == UnpackInt32LE(r1.data)
                 r2 == Recv(r1.rest, length, scen.frag2, scen.ending, sock.timeout)
             IN  IF r2.kind = "timeout"
                 THEN Response("none", 0, <<>>, "", r2.rest, 2)
                 ELSE IF r2.kind \in {"raise", "block"}
                 THEN Response(r2.kind, 0, <<>>, r2.exc, r2.rest, 2)
                 ELSE DecodeBody(r2.data, r2.rest)

\* an exchange that sends and does not wait for the reply
AfterExchangeWithoutReceive(sock, packet, res, scen) ==
    [sock EXCEPT
        !.log = sock.log \o <<SendEvent(packet)>>,
        !.peer = IF scen.ending = "stall" THEN sock.peer ELSE scen.ending]

\* the socket object after the exchange: what was logged, what is left unread
AfterExchange(sock, packet, res, scen) ==
    [sock EXCEPT
        !.log = sock.log \o <<SendEvent(packet), RecvEvent(res)>>,
        !.inbuf = res.rest,
        !.peer = IF scen.ending = "stall" THEN sock.peer ELSE scen.ending]

\* a _send_packet that does not increment self.request_id
SendPacketSameId(c, ss, packet_type, payload, scen) ==
    LET packet == EncodePacket(c.request_id, packet_type, payload)
        failed(exc) == [client |-> c, socks |-> ss,
                        res |-> Response("raise", 0, <<>>, exc, <<>>, 0)]
    IN  IF c.socket = None THEN failed("AttributeError")
        ELSE LET sock == ss[c.socket]
             IN  IF sock.state # "connected" THEN failed("BrokenPipeError")
                 ELSE IF scen.send # "ok" THEN failed("OSError")
                 ELSE LET res == ReceivePacket(sock, scen)
                      IN  [client |-> c,
                           socks |-> [ss EXCEPT ![c.socket] =
                                         AfterExchange(sock, packet, res, scen)],
                           res |-> res]

\* RCONClient._send_packet: [client, socks, res]
SendPacket(c, ss, packet_type, payload, scen) ==
    LET c1 == [c EXCEPT !.request_id = c.request_id + 1]
        packet == EncodePacket(c1.request_id, packet_type, payload)
        failed(exc) == [client |-> c1, socks |-> ss,
                        res |-> Response("raise", 0, <<>>, exc, <<>>, 0)]
    IN  IF c1.socket = None THEN failed("AttributeError")
        ELSE LET sock == ss[c1.socket]
             IN  IF sock.state # "connected" THEN failed("BrokenPipeError")
                 ELSE IF scen.send # "ok" THEN failed("OSError")
                 ELSE LET res == ReceivePacket(sock, scen)
                      IN  [client |-> c1,
                           socks |-> [ss EXCEPT ![c1.socket] =
                                         AfterExchange(sock, packet, res, scen)],
                           res |-> res]

\* the return statement of RCONClient._authenticate
AuthResult(response) == response.kind # "none" /\ response.request_id # -1

\* RCONClient._authenticate: [client, socks, out]
Authenticate(c, ss, scen) ==
    LET r == SendPacket(c, ss, SERVERDATA_AUTH, c.password, scen)
    IN  [client |-> r.client, socks |-> r.socks,
         out |-> IF r.res.kind \in {"raise", "block"}
                 THEN Out(r.res.kind, <<>>, r.res.exc)
                 ELSE IF AuthResult(r.res) THEN Out("true", <<>>, "")
                 ELSE Out("false", <<>>, "")]

\* a connect that leaves out settimeout(5): the socket stays blocking
ConnectWithoutTimeout(c, ss, scen) ==
    LET k == Len(ss) + 1
        c1 == [c EXCEPT !.socket = k]
    IN  IF scen.conn # "ok"
        THEN [client |-> c1, socks |-> Append(ss, NewSocket),
              out |-> Out("raise", <<>>, "ConnectionRefusedError")]
        ELSE Authenticate(c1, Append(ss, [NewSocket EXCEPT !.state = "connected"]), scen)

\* RCONClient.connect: [client, socks, out]
Connect(c, ss, scen) ==
    LET k == Len(ss) + 1
        c1 == [c EXCEPT !.socket = k]
        s1 == [NewSocket EXCEPT !.timeout = SOCKET_TIMEOUT]
    IN  IF scen.conn # "ok"
        THEN [client |-> c1, socks |-> Append(ss, s1),
              out |-> Out("raise", <<>>, "ConnectionRefusedError")]
        ELSE Authenticate(c1, Append(ss, [s1 EXCEPT !.state = "connected"]), scen)

\* a command that tests the payload, not the response, for truthiness
CommandResultByTruthiness(response) ==
    IF response.kind # "none" /\ response.payload # <<>>
    THEN Out("str", response.payload, "")
    ELSE Out("none", <<>>, "")

\* the result of RCONClient.command for the response of _send_packet
CommandResult(response) ==
    IF response.kind # "none" THEN Out("str", response.payload, "")
    ELSE Out("none", <<>>, "")

\* a command that drops the socket reference when no response string came
CommandForgettingSocket(c, ss, cmd, scen) ==
    LET r == SendPacket(c, ss, SERVERDATA_EXECCOMMAND, cmd, scen)
    IN  IF r.res.kind = "tuple"
        THEN [client |-> r.client, socks |-> r.socks, out |-> CommandResult(r.res)]
        ELSE [client |-> [r.client EXCEPT !.socket = None], socks |-> r.socks,
              out |-> IF r.res.kind \in {"raise", "block"}
                      THEN Out(r.res.kind, <<>>, r.res.exc)
                      ELSE CommandResult(r.res)]

\* RCONClient.command: [client, socks, out]
Command(c, ss, cmd, scen) ==
    LET r == SendPacket(c, ss, SERVERDATA_EXECCOMMAND, cmd, scen)
    IN  [client |-> r.client, socks |-> r.socks,
         out |-> IF r.res.kind \in {"raise", "block"}
                 THEN Out(r.res.kind, <<>>, r.res.exc)
                 ELSE CommandResult(r.res)]

\* a close that releases the socket and keeps the reference to it
CloseKeepingReference(c, ss) ==
    IF c.socket # None
    THEN [client |-> c,
          socks |-> [ss EXCEPT ![c.socket].closed = TRUE,
                               ![c.socket].closes = ss[c.socket].closes + 1],
          out |-> Out("void", <<>>, "")]
    ELSE [client |-> c, socks |-> ss, out |-> Out("void", <<>>, "")]

\* RCONClient.close: [client, socks, out]
Close(c, ss) ==
    IF c.socket # None
    THEN [client |-> [c EXCEPT !.socket = None],
          socks |-> [ss EXCEPT ![c.socket].closed = TRUE,
                               ![c.socket].closes = ss[c.socket].closes + 1],
          out |-> Out("void", <<>>, "")]
    ELSE [client |-> c, socks |-> ss, out |-> Out("void", <<>>, "")]

-----------------------------------------------------------------------------
(* The callers.  stop_server and send_rcon_command run as a sequence of    *)
(* steps, one per RCONClient method call: the environment acts during each *)
(* call and the caller branches on how the call ended.                     *)

\* "list", a command with a two-byte UTF-8 character, and "a\0b" as
\* input() hands it over when the line typed holds a NUL
Commands == {<<108, 105, 115, 116>>, <<233>>, <<97, 0, 98>>}

Unset == [kind |-> "unset", value |-> <<>>]
RetTrue == [kind |-> "true", value |-> <<>>]
RetFalse == [kind |-> "false", value |-> <<>>]
RetNone == [kind |-> "none", value |-> <<>>]
RetStr(v) == [kind |-> "str", value |-> v]

\* a method call: the method, its argument, the object before the call, the result
Call(op, arg, pre, out) == [op |-> op, arg |-> arg, pre |-> pre, out |-> out]

NoCall == Call("none", <<>>, NewClient(RCON_HOST, RCON_PORT, RCON_PASSWORD),
               Out("void", <<>>, ""))

IdleCaller ==
    [fn |-> "none", pc |-> "idle", cmd |-> <<>>, ret |-> Unset, msg |-> "",
     response |-> Unset, calls |-> 0, ops |-> 0,
     probe |-> [port |-> None, result |-> None],
     grant |-> [pc |-> "none", username |-> <<>>, response1 |-> Unset,
                response2 |-> Unset, ret |-> Unset, msg |-> ""]]

\* the scenarios the environment can play on the client's current socket
CommandScenarios(few) ==
    IF client.socket = None THEN {NoNet}
    ELSE IF socks[client.socket].state # "connected" THEN {NoNet}
    ELSE ScenariosFor(socks[client.socket].peer, few)

ConnectScenarios(few) == {Refused} \cup ScenariosFor("up", few)

\* the value the function returns on its failure paths
Failure(fn) == IF fn = "stop_server" THEN RetFalse ELSE RetNone

\* what sock.connect_ex(('127.0.0.1', SERVER_PORT)) can return:
\* 0, ECONNREFUSED, EAGAIN (the 1 s timeout)
ProbeResults == {0, 111, 11}

\* a probe whose result is not looked at
ProbeIgnored(result) == TRUE

\* a probe that never finds the server running
ProbeNeverRunning(result) == FALSE

\* is_server_running(): return result == 0
IsServerRunning(result) == result = 0

\* is_server_running() decides whether the function goes on; when it does,
\* rcon = RCONClient(RCON_HOST, RCON_PORT, RCON_PASSWORD)
Enter(fn, cmd, result) ==
    LET running == IsServerRunning(result) IN
    /\ caller.pc \in {"idle", "done"}    \* "done": the previous call has returned
    /\ caller.calls < MaxCalls
    /\ client' = NewClient(RCON_HOST, RCON_PORT, RCON_PASSWORD)
    /\ socks' = <<>>
    /\ net' = NoNet
    /\ last' = NoCall
    /\ caller' = [caller EXCEPT
          !.fn = fn, !.cmd = cmd, !.calls = caller.calls + 1,
          !.response = Unset,
          !.probe = [port |-> SERVER_PORT, result |-> result],
          !.ret = IF running THEN Unset ELSE Failure(fn),
          !.msg = IF running THEN "" ELSE "Server is not running",
          !.pc = IF running THEN "connect" ELSE "done"]
    /\ UNCHANGED hostVars

StopServer == \E result \in ProbeResults : Enter("stop_server", STOP_COMMAND, result)

SendRconCommand ==
    \E cmd \in Commands, result \in ProbeResults :
        Enter("send_rcon_command", cmd, result)

\* the except clause of the caller
Handler(fn) == IF fn = "stop_server" THEN "RCON error; stop manually" ELSE "RCON error"

\* a caller that ignores the result of connect and goes on to the command
AfterConnectIgnoringResult(c, out) ==
    IF out.outcome \in {"true", "false"} THEN [c EXCEPT !.pc = "command"]
    ELSE IF out.outcome = "raise"
    THEN [c EXCEPT !.pc = "done", !.ret = Failure(c.fn), !.msg = Handler(c.fn)]
    ELSE [c EXCEPT !.pc = "hung"]

\* a caller that reports every failed connect as an authentication failure
AfterConnectBlamingAuth(c, out) ==
    IF out.outcome = "true" THEN [c EXCEPT !.pc = "command"]
    ELSE IF out.outcome \in {"false", "raise"}
    THEN [c EXCEPT !.pc = "done", !.ret = Failure(c.fn),
                   !.msg = "RCON authentication failed"]
    ELSE [c EXCEPT !.pc = "hung"]

\* where the caller goes after rcon.connect()
AfterConnect(c, out) ==
    IF out.outcome = "true" THEN [c EXCEPT !.pc = "command"]
    ELSE IF out.outcome = "false"
    THEN [c EXCEPT !.pc = "done", !.ret = Failure(c.fn),
                   !.msg = "RCON authentication failed"]
    ELSE IF out.outcome = "raise"
    THEN [c EXCEPT !.pc = "done", !.ret = Failure(c.fn), !.msg = Handler(c.fn)]
    ELSE [c EXCEPT !.pc = "hung"]

\* if rcon.connect():
CallerConnect ==
    /\ caller.pc = "connect"
    /\ \E scen \in ConnectScenarios(FALSE) :
          LET r == Connect(client, socks, scen)
          IN  /\ client' = r.client
              /\ socks' = r.socks
              /\ net' = scen
              /\ last' = Call("connect", <<>>, client, r.out)
              /\ caller' = AfterConnect(caller, r.out)
    /\ UNCHANGED hostVars

\* a caller that sends the command again when no response came back
AfterCommandRetrying(c, out) ==
    IF out.outcome = "raise"
    THEN [c EXCEPT !.pc = "done", !.ret = Failure(c.fn), !.msg = Handler(c.fn)]
    ELSE IF out.outcome = "block" THEN [c EXCEPT !.pc = "hung"]
    ELSE IF out.outcome = "none" /\ c.response = Unset
    THEN [c EXCEPT !.pc = "command", !.response = RetNone]
    ELSE [c EXCEPT !.pc = "close",
                   !.response = IF out.outcome = "str" THEN RetStr(out.value)
                                ELSE RetNone]

\* where the caller goes after rcon.command(...)
AfterCommand(c, out) ==
    IF out.outcome = "raise"
    THEN [c EXCEPT !.pc = "done", !.ret = Failure(c.fn), !.msg = Handler(c.fn)]
    ELSE IF out.outcome = "block" THEN [c EXCEPT !.pc = "hung"]
    ELSE [c EXCEPT !.pc = "close",
                   !.response = IF out.outcome = "str" THEN RetStr(out.value)
                                ELSE RetNone]

\* rcon.command("stop") / response = rcon.command(cmd)
CallerCommand ==
    /\ caller.pc = "command"
    /\ \E scen \in CommandScenarios(FALSE) :
          LET r == Command(client, socks, caller.cmd, scen)
          IN  /\ client' = r.client
              /\ socks' = r.socks
              /\ net' = scen
              /\ last' = Call("command", caller.cmd, client, r.out)
              /\ caller' = AfterCommand(caller, r.out)
    /\ UNCHANGED hostVars

\* rcon.close() and the return that follows it
CallerClose ==
    /\ caller.pc = "close"
    /\ LET r == Close(client, socks)
       IN  /\ client' = r.client
           /\ socks' = r.socks
           /\ last' = Call("close", <<>>, client, r.out)
    /\ net' = net
    /\ caller' = [caller EXCEPT
          !.pc = "done",
          !.ret = IF caller.fn = "stop_server" THEN RetTrue ELSE caller.response,
          !.msg = IF caller.fn = "stop_server" THEN "Stop command sent" ELSE ""]
    /\ UNCHANGED hostVars

Init ==
    /\ client = NewClient(RCON_HOST, RCON_PORT, RCON_PASSWORD)
    /\ socks = <<>>
    /\ net = NoNet
    /\ last = NoCall
    /\ caller = IdleCaller
    /\ fs = NoFs
    /\ run = NoRun

Next ==
    \/ StopServer
    \/ SendRconCommand
    \/ CallerConnect
    \/ CallerCommand
    \/ CallerClose

Spec == Init /\ [][Next]_vars

-----------------------------------------------------------------------------
(* Free use of one client object: connect, command and close in any order, *)
(* as a test of the class would call them.                                 *)

FreeCaller == [IdleCaller EXCEPT !.fn = "free", !.pc = "free"]

CanCall == caller.pc = "free" /\ caller.ops < MaxOps

Called(out) ==
    [caller EXCEPT !.ops = caller.ops + 1,
                   !.pc = IF out.outcome = "block" THEN "hung" ELSE "free"]

UseConnect ==
    /\ CanCall
    /\ \E scen \in ConnectScenarios(TRUE) :
          LET r == Connect(client, socks, scen)
          IN  /\ client' = r.client
              /\ socks' = r.socks
              /\ net' = scen
              /\ last' = Call("connect", <<>>, client, r.out)
              /\ caller' = Called(r.out)
    /\ UNCHANGED hostVars

UseCommand ==
    /\ CanCall
    /\ \E cmd \in Commands, scen \in CommandScenarios(TRUE) :
          LET r == Command(client, socks, cmd, scen)
          IN  /\ client' = r.client
              /\ socks' = r.socks
              /\ net' = scen
              /\ last' = Call("command", cmd, client, r.out)
              /\ caller' = Called(r.out)
    /\ UNCHANGED hostVars

UseClose ==
    /\ CanCall
    /\ LET r == Close(client, socks)
       IN  /\ client' = r.client
           /\ socks' = r.socks
           /\ last' = Call("close", <<>>, client, r.out)
           /\ caller' = Called(r.out)
    /\ net' = NoNet
    /\ UNCHANGED hostVars

ClientInit ==
    /\ client = NewClient(RCON_HOST, RCON_PORT, RCON_PASSWORD)
    /\ socks = <<>>
    /\ net = NoNet
    /\ last = NoCall
    /\ caller = FreeCaller
    /\ fs = NoFs
    /\ run = NoRun

ClientNext == UseConnect \/ UseCommand \/ UseClose

ClientSpec == ClientInit /\ [][ClientNext]_vars

-----------------------------------------------------------------------------
(* Reading the wire: the fields of a packet the client has sent.           *)

SentId(bytes) == UnpackInt32LE(SubSeq(bytes, 5, 8))
SentType(bytes) == UnpackInt32LE(SubSeq(bytes, 9, 12))
SentPayload(bytes) == SubSeq(bytes, 13, Len(bytes))

IsSend(e) == e.ev = "send"
IsRecv(e) == e.ev = "recv"
IsAuthSend(e) == IsSend(e) /\ SentType(e.bytes) = SERVERDATA_AUTH
IsExecSend(e) == IsSend(e) /\ SentType(e.bytes) = SERVERDATA_EXECCOMMAND

\* the receive that followed the AUTH packet produced a packet whose id is not -1
AuthAccepted(log) ==
    /\ Len(log) >= 2
    /\ IsRecv(log[2])
    /\ log[2].kind = "tuple"
    /\ log[2].request_id # -1

-----------------------------------------------------------------------------
(* C1: on every connection the first packet sent is an AUTH packet (type   *)
(* 3) whose payload is the password; an EXEC packet (type 2) is sent by    *)
(* stop_server / send_rcon_command only after the authentication exchange  *)
(* succeeded; when the AUTH reply has requestId -1 or there is no reply,   *)
(* connect reports failure and no EXEC packet is on the connection.        *)
C1_AuthBeforeExec ==
    /\ \A k \in DOMAIN socks :
          LET log == socks[k].log
          IN  /\ log # <<>> =>
                   /\ IsAuthSend(log[1])
                   /\ SentPayload(log[1].bytes) = Utf8Encode(RCON_PASSWORD) \o <<0, 0>>
              /\ \A i \in DOMAIN log :
                   IsExecSend(log[i]) => (i > 2 /\ AuthAccepted(log))
              /\ (Len(log) >= 2 /\ ~AuthAccepted(log)) =>
                   \A i \in DOMAIN log : ~IsExecSend(log[i])
    /\ (last.op = "connect" /\ net.conn = "ok" /\ net.send = "ok"
          /\ ~AuthAccepted(socks[client.socket].log))
         => last.out.outcome # "true"

\* stop_server has returned after the server answered AUTH with requestId -1
C1_Witness ==
    /\ caller.fn = "stop_server"
    /\ caller.pc = "done"
    /\ caller.ret = RetFalse
    /\ Len(socks) = 1
    /\ Len(socks[1].log) = 2
    /\ socks[1].log[2].kind = "tuple"
    /\ socks[1].log[2].request_id = -1
    /\ \A i \in DOMAIN socks[1].log : ~IsExecSend(socks[1].log[i])

-----------------------------------------------------------------------------
(* Reading the wire: the reply frame of the latest exchange.               *)

FrameLength(f) == UnpackInt32LE(SubSeq(f, 1, 4))
FrameId(f) == UnpackInt32LE(SubSeq(f, 5, 8))

\* the length prefix counts exactly the bytes that follow it, and they hold
\* a request id, a type and the two pad bytes
WellFramed(f) == Len(f) >= 14 /\ FrameLength(f) = Len(f) - 4

\* a frame that decodes as a packet: well framed, NUL-padded, UTF-8 payload
ValidPacket(f) ==
    /\ WellFramed(f)
    /\ SubSeq(f, Len(f) - 1, Len(f)) = <<0, 0>>
    /\ Utf8Decode(SubSeq(f, 13, Len(f) - 2)).ok

\* the log of the socket the client holds
CurrentLog == IF client.socket = None THEN <<>> ELSE socks[client.socket].log

\* bytes of earlier replies that were still unread when the latest exchange began
PreLeft == IF Len(CurrentLog) <= 2 THEN 0 ELSE CurrentLog[Len(CurrentLog) - 2].left

\* the latest call sent its packet and the exchange started on a clean stream
Exchanged == net.conn = "ok" /\ net.send = "ok" /\ PreLeft = 0

\* ... and the peer's whole frame arrived and each recv was handed all it asked for
ReadWhole ==
    /\ Exchanged
    /\ Len(net.frame) >= 4
    /\ net.delivered = Len(net.frame)
    /\ net.frag1 >= 4
    /\ net.frag2 >= FrameLength(net.frame)

-----------------------------------------------------------------------------
(* C2: connect succeeds if and only if one reply packet was received to    *)
(* the AUTH packet and its requestId is not -1, whatever the reply's       *)
(* payload and type and whether or not its id equals the id sent.          *)
(*                                                                         *)
(* Stated where it leaves no room for reading: for a reply frame that is   *)
(* well framed and read whole the outcome is decided by the requestId      *)
(* alone, and without any reply bytes connect does not succeed.            *)
C2_OutcomeDecidedById ==
    last.op = "connect" =>
        /\ (ReadWhole /\ WellFramed(net.frame))
              => (last.out.outcome = "true" <=> FrameId(net.frame) # -1)
        /\ (Exchanged /\ net.delivered = 0) => last.out.outcome # "true"

-----------------------------------------------------------------------------
(* C3: after a successful connect, command(cmd) sends exactly one EXEC     *)
(* packet carrying cmd and performs exactly one packet receive; when the   *)
(* reply packet arrives whole on a stream with nothing left unread, the    *)
(* call returns that packet's payload with the two pad bytes stripped.     *)
C3_CommandReturnsPayload ==
    (last.op = "command" /\ net.send = "ok") =>
        /\ Len(CurrentLog) = 4
        /\ IsExecSend(CurrentLog[3])
        /\ SentPayload(CurrentLog[3].bytes) = Utf8Encode(last.arg) \o <<0, 0>>
        /\ IsRecv(CurrentLog[4])
        /\ Cardinality({i \in DOMAIN CurrentLog : IsExecSend(CurrentLog[i])}) = 1
        /\ \A r \in PeerReplies :
              (ReadWhole /\ net.frame = EncodePacket(r[1], r[2], r[3]))
                 => last.out = Out("str", r[3], "")

\* send_rcon_command's command got the reply "OK" with requestId 2
C3_Witness ==
    /\ last.op = "command"
    /\ caller.fn = "send_rcon_command"
    /\ ReadWhole
    /\ net.frame = EncodePacket(2, SERVERDATA_RESPONSE_VALUE, <<79, 75>>)
    /\ last.out = Out("str", <<79, 75>>, "")

-----------------------------------------------------------------------------
(* C4: a failed connect leaves no resources open: on every exit path of    *)
(* stop_server and send_rcon_command after connect failed, the socket      *)
(* connect opened is closed and the client holds no connection state.      *)
C4_FailedConnectReleases ==
    (caller.pc = "done" /\ last.op = "connect" /\ last.out.outcome \in {"false", "raise"})
       => /\ client.socket = None
          /\ \A k \in DOMAIN socks : socks[k].closed

-----------------------------------------------------------------------------
(* C5: once connect has succeeded, stop_server and send_rcon_command reach *)
(* close on every exit path, also when command returns no response or      *)
(* raises.                                                                 *)
C5_CloseOnEveryExit ==
    (caller.pc = "done" /\ last.op \in {"command", "close"})
       => \A k \in DOMAIN socks : socks[k].closed

-----------------------------------------------------------------------------
(* C6: close is idempotent.  A close on a client that holds no socket      *)
(* (already closed, or never connected) changes neither the client nor any *)
(* socket and raises nothing, and no socket object is ever released more   *)
(* than once.                                                              *)
IsCloseStep == last'.op = "close" /\ caller'.ops = caller.ops + 1

C6_CloseIdempotent ==
    /\ [](\A k \in DOMAIN socks : socks[k].closes <= 1)
    /\ [](last.op = "close" => (last.out.outcome = "void" /\ client.socket = None))
    /\ [][(IsCloseStep /\ client.socket = None)
             => (client' = client /\ socks' = socks)]_vars

\* close was called on a client whose socket an earlier close had released
C6_Witness ==
    /\ last.op = "close"
    /\ last.pre.socket = None
    /\ last.out.outcome = "void"
    /\ \E k \in DOMAIN socks : socks[k].closed /\ socks[k].closes = 1

-----------------------------------------------------------------------------
(* C7: if the peer accepts the connection and then never replies to the    *)
(* command, command returns after the read timeout with the failure value  *)
(* None: it neither blocks forever nor returns a response string.          *)
C7_SilentPeerEndsInNone ==
    (last.op = "command" /\ Exchanged /\ net.delivered = 0 /\ net.ending = "stall")
       => (last.out.outcome = "none" /\ caller.pc # "hung")

\* command has returned None to its caller after a silent peer
C7_Witness ==
    /\ last.op = "command"
    /\ Exchanged
    /\ net.delivered = 0
    /\ net.ending = "stall"
    /\ last.out.outcome = "none"
    /\ caller.pc = "close"

-----------------------------------------------------------------------------
(* C8: if the peer sends fewer than 4 bytes of the length prefix and then  *)
(* closes, connect fails (returns False) and command fails (returns None): *)
(* no decoding error is raised and no string is returned.                  *)
C8_ShortPrefixFails ==
    (last.op \in {"connect", "command"} /\ Exchanged
        /\ net.delivered < 4 /\ net.ending = "close")
       => last.out.outcome = (IF last.op = "connect" THEN "false" ELSE "none")

\* the peer sent exactly 2 bytes in reply to the command and closed
C8_Witness ==
    /\ last.op = "command"
    /\ Exchanged
    /\ net.delivered = 2
    /\ net.ending = "close"
    /\ last.out.outcome = "none"

-----------------------------------------------------------------------------
(* C9: if the 4-byte length prefix of a reply packet arrives but the       *)
(* single body read returns fewer than `length` bytes (the peer closed, or *)
(* the read came back early), command fails; it never returns a string     *)
(* decoded from a body shorter than `length` bytes.                        *)
BodyRead == Min(FrameLength(net.frame), Min(net.frag2, net.delivered - 4))

C9_ShortBodyFails ==
    (last.op = "command" /\ Exchanged
        /\ ValidPacket(net.frame) /\ net.delivered >= 4 /\ net.frag1 >= 4
        /\ BodyRead < FrameLength(net.frame))
       => last.out.outcome # "str"

-----------------------------------------------------------------------------
(* C10: a reply that does not decode as a valid packet (payload not UTF-8, *)
(* or a body too short for requestId, type and the two pad bytes) is       *)
(* surfaced as an error by command, never as an empty-string response.     *)
C10_MalformedIsAnError ==
    (last.op = "command" /\ ReadWhole /\ ~ValidPacket(net.frame))
       => last.out.outcome = "raise"

-----------------------------------------------------------------------------
(* The client before the latest call.                                      *)

\* the log of the socket the client held when the latest call began
PreLog == IF last.pre.socket = None THEN <<>> ELSE socks[last.pre.socket].log

\* the client had completed a successful connect on the socket it held
WasReady == last.pre.socket # None /\ AuthAccepted(PreLog)

ExecSends(log) == {i \in DOMAIN log : IsExecSend(log[i])}
AuthSends(log) == {i \in DOMAIN log : IsAuthSend(log[i])}

-----------------------------------------------------------------------------
(* C11: command on a client that has not completed a successful connect    *)
(* (never connected, authentication rejected, already closed) yields an    *)
(* error and sends no bytes.                                               *)
C11_CommandNeedsReady ==
    (last.op = "command" /\ ~WasReady)
       => (last.out.outcome = "raise" /\ ExecSends(PreLog) = {})

-----------------------------------------------------------------------------
(* C12: a socket-level failure while connecting is reported as an error    *)
(* of its own; stop_server and send_rcon_command report "authentication    *)
(* failed" only when the connection was established, the AUTH packet was   *)
(* sent and the reply was a rejection (requestId -1) or did not come.      *)
C12_AuthFailedOnlyAfterExchange ==
    /\ caller.msg = "RCON authentication failed" =>
          /\ last.op = "connect"
          /\ net.conn = "ok"
          /\ net.send = "ok"
          /\ Len(CurrentLog) = 2
          /\ \/ CurrentLog[2].kind = "none"
             \/ CurrentLog[2].kind = "tuple" /\ CurrentLog[2].request_id = -1
    /\ (last.op = "connect" /\ (net.conn # "ok" \/ net.send # "ok")) =>
          /\ last.out.outcome = "raise"
          /\ caller.msg = Handler(caller.fn)
          /\ caller.msg # "RCON authentication failed"

\* the connection was refused and the caller reported an RCON error
C12_Witness ==
    /\ last.op = "connect"
    /\ net.conn = "refused"
    /\ caller.pc = "done"
    /\ caller.msg = Handler(caller.fn)
    /\ last.out.exc = "ConnectionRefusedError"

-----------------------------------------------------------------------------
(* C13: nothing is retried.  One call of connect sends exactly one AUTH    *)
(* packet, one call of command sends exactly one EXEC packet, and one      *)
(* invocation of stop_server opens at most one connection and sends "stop" *)
(* at most once, however the exchange ends.                                *)
C13_NoRetry ==
    /\ Len(socks) <= 1
    /\ \A k \in DOMAIN socks :
          /\ Cardinality(AuthSends(socks[k].log)) <= 1
          /\ Cardinality(ExecSends(socks[k].log)) <= 1
          /\ \A i \in ExecSends(socks[k].log) :
                SentPayload(socks[k].log[i].bytes) = Utf8Encode(caller.cmd) \o <<0, 0>>
    /\ (last.op = "connect" /\ net.conn = "ok" /\ net.send = "ok") =>
          (Cardinality(AuthSends(CurrentLog)) = 1 /\ Len(CurrentLog) = 2)
    /\ (last.op = "command" /\ net.send = "ok") =>
          (Cardinality(ExecSends(CurrentLog)) = 1 /\ Len(CurrentLog) = 4)
    /\ last.op \in {"connect", "command"} =>
          client.request_id <= last.pre.request_id + 1

\* stop_server has returned after a "stop" that got no reply, sent once
C13_Witness ==
    /\ caller.fn = "stop_server"
    /\ caller.pc = "done"
    /\ caller.response = RetNone
    /\ Len(socks) = 1
    /\ Cardinality(ExecSends(socks[1].log)) = 1
    /\ SentPayload(socks[1].log[3].bytes) = Utf8Encode(STOP_COMMAND) \o <<0, 0>>

-----------------------------------------------------------------------------
(* C14: no RCON failure is fatal.  For every failure of connect or command *)
(* (refused connection, timeout, closed connection, undecodable reply)     *)
(* stop_server returns False and send_rcon_command returns None; no        *)
(* exception escapes.                                                      *)
RconFailed ==
    \/ last.op = "connect" /\ last.out.outcome \in {"false", "raise"}
    \/ last.op = "command" /\ last.out.outcome = "raise"
    \/ last.op = "close" /\ caller.response = RetNone

C14_FailureReturnsFailure ==
    (caller.pc = "done" /\ RconFailed) => caller.ret = Failure(caller.fn)

-----------------------------------------------------------------------------
(* C15: "stop" is issued over RCON only while the probe of the game's      *)
(* public TCP port (SERVER_PORT, not the RCON port) found the server       *)
(* running: when is_server_running is false, stop_server opens no RCON     *)
(* connection and sends nothing.                                           *)
C15_StopOnlyWhenRunning ==
    caller.fn = "stop_server" =>
       /\ caller.probe.port = SERVER_PORT
       /\ caller.probe.port # RCON_PORT
       /\ caller.probe.result # 0 =>
             /\ socks = <<>>
             /\ client.socket = None
             /\ last = NoCall
             /\ caller.pc = "done"
             /\ caller.ret = RetFalse
             /\ caller.msg = "Server is not running"
       /\ \A k \in DOMAIN socks : caller.probe.result = 0

\* stop_server has returned False because the game port refused the probe
C15_Witness ==
    /\ caller.fn = "stop_server"
    /\ caller.probe = [port |-> SERVER_PORT, result |-> 111]
    /\ caller.pc = "done"
    /\ caller.ret = RetFalse
    /\ socks = <<>>

-----------------------------------------------------------------------------
(* The packet codec on its own: _encode_packet applied to drawn arguments, *)
(* and _receive_packet reading the bytes it produced from a stream that    *)
(* hands them over whole.                                                  *)

MaxCodecText == 2

\* NUL, one-, two-, three- and four-byte code points
CodecChars == {0, 65, 233, 8364, 128512}
CodecTexts == SeqsUpTo(CodecChars, MaxCodecText)
CodecIds == {-2147483647 - 1, -1, 0, 1, 2, 255, 256, 65536, 2147483647}
CodecTypes == {SERVERDATA_RESPONSE_VALUE, SERVERDATA_EXECCOMMAND, SERVERDATA_AUTH}

HasNul(text) == \E i \in DOMAIN text : text[i] = 0

CodecCaller == [IdleCaller EXCEPT !.fn = "codec", !.pc = "encode"]

\* a connected socket as connect leaves it
LoopSocket ==
    [NewSocket EXCEPT !.state = "connected", !.timeout = SOCKET_TIMEOUT]

\* packet = self._encode_packet(request_id, packet_type, payload)
CodecEncode ==
    /\ caller.pc = "encode"
    /\ LET packet == EncodePacket(last.arg[1], last.arg[2], last.arg[3])
       IN  /\ last' = Call("_encode_packet", last.arg, client,
                           Out("bytes", packet, ""))
           /\ net' = [NoNet EXCEPT !.conn = "ok", !.send = "ok",
                                   !.frame = packet, !.delivered = Len(packet)]
    /\ socks' = <<LoopSocket>>
    /\ caller' = [caller EXCEPT !.pc = "decode"]
    /\ UNCHANGED client
    /\ UNCHANGED hostVars

\* self._receive_packet() on a stream that holds the packet
CodecDecode ==
    /\ caller.pc = "decode"
    /\ LET res == ReceivePacket(socks[1], net)
       IN  /\ last' = Call("_receive_packet", last.arg, client,
                           Out(res.kind, <<res.request_id, res.payload>>, res.exc))
           /\ socks' = [socks EXCEPT ![1].log = <<RecvEvent(res)>>,
                                     ![1].inbuf = res.rest]
    /\ caller' = [caller EXCEPT !.pc = "done"]
    /\ UNCHANGED <<client, net>>
    /\ UNCHANGED hostVars

\* the arguments <<request_id, packet_type, payload>> are drawn here
CodecInit ==
    /\ client = NewClient(RCON_HOST, RCON_PORT, RCON_PASSWORD)
    /\ socks = <<>>
    /\ net = NoNet
    /\ \E request_id \in CodecIds, packet_type \in CodecTypes, payload \in CodecTexts :
          last = [NoCall EXCEPT !.arg = <<request_id, packet_type, payload>>]
    /\ caller = CodecCaller
    /\ fs = NoFs
    /\ run = NoRun

CodecNext == CodecEncode \/ CodecDecode

CodecSpec == CodecInit /\ [][CodecNext]_vars

-----------------------------------------------------------------------------
(* C16: encode/decode round trip.  For every requestId, type and payload   *)
(* with no embedded NUL, decoding the bytes produced by _encode_packet     *)
(* yields (requestId, payload), and nothing is left unread.                *)
C16_RoundTrip ==
    (last.op = "_receive_packet" /\ ~HasNul(last.arg[3])) =>
       /\ last.out = Out("tuple", <<last.arg[1], last.arg[3]>>, "")
       /\ socks[1].inbuf = <<>>

\* a negative id and a payload of a two-byte and a four-byte character
\* have come back from the decoder
C16_Witness ==
    /\ last.op = "_receive_packet"
    /\ last.arg = <<-1, SERVERDATA_EXECCOMMAND, <<233, 128512>>>>
    /\ last.out.value = <<-1, <<233, 128512>>>>
    /\ Len(net.frame) = 4 + 8 + 6 + 2

-----------------------------------------------------------------------------
(* C17: length invariant.  For every packet produced by _encode_packet the *)
(* length field equals the number of emitted bytes minus 4, which is 8     *)
(* plus the number of payload bytes including the two NUL pad bytes.       *)
C17_LengthInvariant ==
    last.op = "_encode_packet" =>
       LET packet == last.out.value
           payload_bytes == Utf8Encode(last.arg[3]) \o <<0, 0>>
       IN  /\ Len(packet) >= 4
           /\ FrameLength(packet) = Len(packet) - 4
           /\ FrameLength(packet) = 8 + Len(payload_bytes)
           /\ SubSeq(packet, 13, Len(packet)) = payload_bytes

\* a packet with a three-byte character and a NUL in its payload: length 14
C17_Witness ==
    /\ last.op = "_encode_packet"
    /\ last.arg[3] = <<8364, 0>>
    /\ Len(last.out.value) = 18
    /\ FrameLength(last.out.value) = 14

-----------------------------------------------------------------------------
(* C18: within one connection sends and receives strictly alternate: every *)
(* packet sent is followed by its receive, which ends with a reply or a    *)
(* failure, before the next packet is sent.                                *)
C18_SendReceiveAlternate ==
    \A k \in DOMAIN socks :
       LET log == socks[k].log
       IN  /\ Len(log) % 2 = 0
           /\ \A i \in DOMAIN log :
                 IF i % 2 = 1 THEN IsSend(log[i])
                 ELSE IsRecv(log[i]) /\ log[i].kind \in {"tuple", "none", "raise"}

\* a third packet has been sent after the receive for the second failed
C18_Witness ==
    \E k \in DOMAIN socks :
       /\ Len(socks[k].log) = 6
       /\ socks[k].log[4].kind = "none"
       /\ IsExecSend(socks[k].log[5])

-----------------------------------------------------------------------------
(* C19: the request id is a counter that starts at 0 and is incremented    *)
(* before each packet is sent.                                             *)

\* the ids of the packets sent on socket k, in order
SentIds(k) ==
    LET log == socks[k].log
    IN  [j \in 1..(Len(log) \div 2) |-> SentId(log[2 * j - 1].bytes)]

\* C19 as stated: the counter is per connection, so the k-th packet sent on
\* a connection carries requestId k (the AUTH packet carries 1).
C19_KthPacketCarriesK ==
    \A k \in DOMAIN socks : \A j \in DOMAIN SentIds(k) : SentIds(k)[j] = j

\* C19 as the code has it: the counter belongs to the RCONClient object.  It
\* is advanced by every call of _send_packet, so the ids one client sends
\* are strictly increasing over all its connections, and the k-th packet of
\* a connection carries k when that connection is the client's first and no
\* earlier _send_packet failed before sending.
C19_CounterPerClient ==
    /\ \A k \in DOMAIN socks : \A i, j \in DOMAIN SentIds(k) :
          i < j => SentIds(k)[i] < SentIds(k)[j]
    /\ \A k1, k2 \in DOMAIN socks : k1 < k2 =>
          \A i \in DOMAIN SentIds(k1), j \in DOMAIN SentIds(k2) :
             SentIds(k1)[i] < SentIds(k2)[j]
    /\ \A k \in DOMAIN socks : \A j \in DOMAIN SentIds(k) :
          1 <= SentIds(k)[j] /\ SentIds(k)[j] <= client.request_id
    /\ (last.op = "command" \/ (last.op = "connect" /\ net.conn = "ok")) =>
          client.request_id = last.pre.request_id + 1
    /\ (Len(socks) = 1 /\ Len(SentIds(1)) = client.request_id) =>
          \A j \in DOMAIN SentIds(1) : SentIds(1)[j] = j

\* a client that sent ids 1 and 2 on its first connection sends AUTH with
\* id 3 on its second
C19_Witness ==
    /\ Len(socks) = 2
    /\ SentIds(1) = <<1, 2>>
    /\ Len(SentIds(2)) >= 1
    /\ SentIds(2)[1] = 3
    /\ IsAuthSend(socks[2].log[1])

-----------------------------------------------------------------------------
(* C20: the client's lifecycle is Disconnected -> Connecting ->            *)
(* Authenticating -> Ready -> (Executing -> Ready)* -> Closed: AUTH is the *)
(* first packet of a connection, an EXEC packet is sent only on a          *)
(* connection whose authentication was accepted (every command starts in   *)
(* Ready), and after close no packet is sent or received on that           *)
(* connection.                                                             *)
ExecOnlyWhenReady ==
    \A k \in DOMAIN socks :
       /\ AuthSends(socks[k].log) \subseteq {1}
       /\ ExecSends(socks[k].log) # {} => AuthAccepted(socks[k].log)

ClosedStaysSilent ==
    \A k \in DOMAIN socks :
       socks[k].closed => (k \in DOMAIN socks' /\ socks'[k].log = socks[k].log)

C20_Lifecycle == [](ExecOnlyWhenReady) /\ [][ClosedStaysSilent]_vars

-----------------------------------------------------------------------------
(* C21: command changes no client state other than the request counter:    *)
(* across any call of command on a connected client, host, port, password  *)
(* and the socket reference are unchanged and request_id increases by      *)
(* exactly 1, whether the call returns a string, returns None or raises.   *)
C21_CommandFrame ==
    (last.op = "command" /\ last.pre.socket # None) =>
       client = [last.pre EXCEPT !.request_id = last.pre.request_id + 1]

\* a command on a connected client has returned None and left the client
\* with its socket and the next request id
C21_Witness ==
    /\ last.op = "command"
    /\ last.pre.socket # None
    /\ socks[last.pre.socket].state = "connected"
    /\ last.out.outcome = "none"
    /\ client.socket = last.pre.socket
    /\ client.request_id = last.pre.request_id + 1

-----------------------------------------------------------------------------
(* C22: a read that times out and a read cut short by a closed connection  *)
(* produce the same outcome, "no packet": when the peer delivers at most   *)
(* the length prefix of a valid reply and then stays silent or closes,     *)
(* _receive_packet returns None, so command returns None and connect       *)
(* returns False, and no error is raised in either case.                   *)
C22_TimeoutAndCloseAlike ==
    (last.op \in {"connect", "command"} /\ Exchanged
        /\ ValidPacket(net.frame) /\ net.delivered <= 4
        /\ net.ending \in {"stall", "close"})
       => last.out.outcome = (IF last.op = "connect" THEN "false" ELSE "none")

-----------------------------------------------------------------------------
(* C23: every packet the client puts on the wire has payload bytes that    *)
(* contain no NUL byte before the two terminating pad bytes, for every     *)
(* password and every command text a caller can pass.                      *)
C23_NoEmbeddedNul ==
    \A k \in DOMAIN socks : \A i \in DOMAIN socks[k].log :
       IsSend(socks[k].log[i]) =>
          LET payload_bytes == SentPayload(socks[k].log[i].bytes)
          IN  \A j \in 1..(Len(payload_bytes) - 2) : payload_bytes[j] # 0

-----------------------------------------------------------------------------
(* C29: command returns None exactly when no reply packet was obtained (a  *)
(* read timed out, or fewer than 4 bytes of the length prefix were read);  *)
(* whenever a reply packet is decoded, command returns its payload string, *)
(* the empty string included, so an empty response and a failed command    *)
(* differ at the client.                                                   *)

\* on a clean stream: the prefix read times out or comes back short, or the
\* body read times out
NoPacket ==
    \/ net.delivered = 0 /\ net.ending \in {"stall", "close"}
    \/ net.delivered > 0 /\ Min(net.frag1, net.delivered) < 4
    \/ /\ net.delivered = 4
       /\ net.frag1 >= 4
       /\ FrameLength(net.frame) > 0
       /\ net.ending = "stall"

C29_NoneIffNoPacket ==
    (last.op = "command" /\ Exchanged) =>
       LET reply == CurrentLog[Len(CurrentLog)]
       IN  /\ last.out.outcome \in {"none", "str", "raise"}
           /\ last.out.outcome = "none" <=> NoPacket
           /\ last.out.outcome = "none" <=> reply.kind = "none"
           /\ reply.kind = "tuple" => last.out = Out("str", reply.payload, "")

\* a reply with an empty payload came back as the empty string, and
\* send_rcon_command is about to return it
C29_Witness ==
    /\ last.op = "command"
    /\ caller.fn = "send_rcon_command"
    /\ ReadWhole
    /\ net.frame = EncodePacket(2, SERVERDATA_RESPONSE_VALUE, <<>>)
    /\ last.out = Out("str", <<>>, "")
    /\ caller.response = RetStr(<<>>)

-----------------------------------------------------------------------------
(* grant_permissions: two send_rcon_command calls, one after the other.    *)
(* Each runs as in Spec (probe, connect, command, close);                  *)
(* grant_permissions collects what each returned.                          *)

\* "" and "Al"
Usernames == {<<>>, <<65, 108>>}

\* f"lp user {username} permission set * true"
WildcardGrant(username) ==
    <<108, 112, 32, 117, 115, 101, 114, 32>> \o username
       \o <<32, 112, 101, 114, 109, 105, 115, 115, 105, 111, 110, 32, 115, 101, 116, 32, 42, 32, 116, 114, 117, 101>>

\* f"lp user {username} permission set luckperms.autoop true"
AutoopGrant(username) ==
    <<108, 112, 32, 117, 115, 101, 114, 32>> \o username
       \o <<32, 112, 101, 114, 109, 105, 115, 115, 105, 111, 110, 32, 115, 101, 116, 32, 108, 117, 99, 107, 112, 101, 114, 109, 115, 46, 97, 117, 116, 111, 111, 112, 32, 116, 114, 117, 101>>

\* grant_permissions(username) up to its first send_rcon_command
GrantPermissions ==
    /\ caller.pc = "idle"
    /\ caller.grant.pc = "none"
    /\ \E username \in Usernames, result \in ProbeResults :
          caller' = [caller EXCEPT
             !.fn = "grant_permissions",
             !.probe = IF username = <<>> THEN caller.probe
                       ELSE [port |-> SERVER_PORT, result |-> result],
             !.grant = [caller.grant EXCEPT
                !.username = username,
                !.pc = IF username = <<>> \/ ~IsServerRunning(result)
                       THEN "done" ELSE "first",
                !.ret = IF username = <<>> \/ ~IsServerRunning(result)
                        THEN RetFalse ELSE Unset,
                !.msg = IF username = <<>> THEN "No username provided"
                        ELSE IF ~IsServerRunning(result)
                        THEN "Server is not running" ELSE ""]]
    /\ UNCHANGED <<client, socks, net, last>>
    /\ UNCHANGED hostVars

\* send_rcon_command(f"lp user {username} permission set ... true")
GrantSend ==
    /\ caller.grant.pc \in {"first", "second"}
    /\ caller.pc = "idle"
    /\ \E result \in ProbeResults :
          Enter("send_rcon_command",
                IF caller.grant.pc = "first"
                THEN WildcardGrant(caller.grant.username)
                ELSE AutoopGrant(caller.grant.username),
                result)

\* response1 = ... / response2 = ..., and after the second the return True
GrantCollect ==
    /\ caller.grant.pc \in {"first", "second"}
    /\ caller.pc = "done"
    /\ caller' = [caller EXCEPT
          !.pc = "idle",
          !.calls = 0,
          !.grant = IF caller.grant.pc = "first"
                    THEN [caller.grant EXCEPT !.pc = "second",
                                              !.response1 = caller.ret]
                    ELSE [caller.grant EXCEPT !.pc = "done",
                                              !.response2 = caller.ret,
                                              !.ret = RetTrue,
                                              !.msg = "Permissions granted"]]
    /\ UNCHANGED <<client, socks, net, last>>
    /\ UNCHANGED hostVars

GrantNext ==
    \/ GrantPermissions
    \/ GrantSend
    \/ CallerConnect
    \/ CallerCommand
    \/ CallerClose
    \/ GrantCollect

GrantSpec == Init /\ [][GrantNext]_vars

-----------------------------------------------------------------------------
(* C30: grant_permissions reports success only when both permission        *)
(* commands were confirmed: it returns True only if both send_rcon_command *)
(* calls returned a response.                                              *)
C30_TrueOnlyIfBothConfirmed ==
    caller.grant.ret = RetTrue =>
       /\ caller.grant.response1.kind = "str"
       /\ caller.grant.response2.kind = "str"

-----------------------------------------------------------------------------
(* File operations.  Each returns [fs, ok]; ok is FALSE when the call      *)
(* raises.                                                                 *)

Exists(f, p) == f.files[p] # Absent

Done(f) == [fs |-> f, ok |-> TRUE]
Raised(f) == [fs |-> f, ok |-> FALSE]

\* shutil.copy(src, dst): dst is created or overwritten
Copy(f, src, dst) == [f EXCEPT !.files[dst] = f.files[src]]

\* os.remove(p) / shutil.rmtree(p)
Remove(f, p) == [f EXCEPT !.files[p] = Absent]

\* os.rename(src, dst): on Windows it raises FileExistsError when dst
\* exists, elsewhere it replaces dst
Rename(f, src, dst) ==
    IF Exists(f, dst) /\ f.platform = "windows" THEN Raised(f)
    ELSE Done([f EXCEPT !.files[dst] = f.files[src], !.files[src] = Absent])

\* a copy that moves the folder instead
MoveTree(f, src, dst) ==
    IF Exists(f, dst) THEN Raised(f)
    ELSE Done([f EXCEPT !.files[dst] = f.files[src], !.files[src] = Absent])

\* shutil.copytree(src, dst): raises FileExistsError when dst exists
CopyTree(f, src, dst) ==
    IF Exists(f, dst) THEN Raised(f)
    ELSE Done([f EXCEPT !.files[dst] = f.files[src]])

\* for backup_name, working_name in world_pairs[i..]:
\*     if os.path.exists(backup_path): shutil.copytree(backup_path, working_path)
RECURSIVE CopyPairs(_, _)
CopyPairs(f, i) ==
    IF i > Len(world_pairs) THEN Done(f)
    ELSE IF ~Exists(f, world_pairs[i][1]) THEN CopyPairs(f, i + 1)
    ELSE LET r == CopyTree(f, world_pairs[i][1], world_pairs[i][2])
         IN  IF r.ok THEN CopyPairs(r.fs, i + 1) ELSE r

\* for _, working_name in world_pairs[i..]:
\*     if os.path.exists(working): shutil.rmtree(working)
RECURSIVE RemoveWorking(_, _)
RemoveWorking(f, i) ==
    IF i > Len(world_pairs) THEN f
    ELSE RemoveWorking(Remove(f, world_pairs[i][2]), i + 1)

-----------------------------------------------------------------------------
(* The mode and world functions.  Each returns [fs, ret, did].             *)

Result(f, ret, did) == [fs |-> f, ret |-> ret, did |-> did]

\* a restore that forgets packwiz.json
RestoreBootstrapOnly(f) ==
    LET f1 == IF ~Exists(f, PACKWIZ_BOOTSTRAP_DISABLED) THEN f
              ELSE IF Exists(f, PACKWIZ_BOOTSTRAP)
              THEN Remove(f, PACKWIZ_BOOTSTRAP_DISABLED)
              ELSE Rename(f, PACKWIZ_BOOTSTRAP_DISABLED, PACKWIZ_BOOTSTRAP).fs
    IN  [fs |-> f1, restored |-> Exists(f, PACKWIZ_BOOTSTRAP_DISABLED)]

\* restore_packwiz_installer(): [fs, restored]
RestorePackwizInstaller(f) ==
    LET f1 == IF ~Exists(f, PACKWIZ_BOOTSTRAP_DISABLED) THEN f
              ELSE IF Exists(f, PACKWIZ_BOOTSTRAP)
              THEN Remove(f, PACKWIZ_BOOTSTRAP_DISABLED)
              ELSE Rename(f, PACKWIZ_BOOTSTRAP_DISABLED, PACKWIZ_BOOTSTRAP).fs
        f2 == IF ~Exists(f1, PACKWIZ_JSON_BACKUP) THEN f1
              ELSE IF Exists(f1, PACKWIZ_JSON)
              THEN Remove(f1, PACKWIZ_JSON_BACKUP)
              ELSE Rename(f1, PACKWIZ_JSON_BACKUP, PACKWIZ_JSON).fs
    IN  [fs |-> f2,
         restored |-> Exists(f, PACKWIZ_BOOTSTRAP_DISABLED)
                      \/ Exists(f, PACKWIZ_JSON_BACKUP)]

\* switch_to_production_mode()
SwitchToProduction(f) ==
    IF ~Exists(f, PROPS_PRODUCTION) THEN Result(f, "False", {})
    ELSE LET f1 == RestorePackwizInstaller(f).fs
             f2 == Copy(f1, PROPS_PRODUCTION, SERVER_PROPERTIES)
             backup_exists == Exists(f2, "world-production")
             working_exists == Exists(f2, "world-local")
         IN  IF backup_exists /\ ~working_exists
             THEN LET r == CopyPairs(f2, 1)
                  IN  Result(r.fs, IF r.ok THEN "True" ELSE "raise",
                             {"restore", "copy"})
             ELSE Result(f2, "True", {"restore"})

\* switch_to_fresh_mode()
SwitchToFresh(f) ==
    IF ~Exists(f, PROPS_FRESH) THEN Result(f, "False", {})
    ELSE LET f1 == RestorePackwizInstaller(f).fs
         IN  Result(Copy(f1, PROPS_FRESH, SERVER_PROPERTIES), "True", {"restore"})

\* reset_local_world(); confirm is the answer to Confirm.ask
ResetLocalWorldTo(f, confirm) ==
    IF ~Exists(f, "world-production") THEN Result(f, "False", {})
    ELSE IF ~confirm THEN Result(f, "False", {"ask"})
    ELSE LET r == CopyPairs(RemoveWorking(f, 1), 1)
         IN  Result(r.fs, IF r.ok THEN "True" ELSE "raise", {"ask", "delete", "copy"})

-----------------------------------------------------------------------------
(* mods/ and switch_to_vanilla_mode.                                       *)

\* a file name in mods/: its stem, its extension, whether 'fabric-api' is in
\* the lower-cased name
ModFile(name, ext, fabric) == [name |-> name, ext |-> ext, fabric |-> fabric]

FabricApi == ModFile("fabric-api-0.92.0", "jar", TRUE)
ModA == ModFile("a", "jar", FALSE)
ModB == ModFile("b", "jar", FALSE)
ModC == ModFile("c", "jar", FALSE)
TomlA == ModFile("a", "pw.toml", FALSE)
ModFiles == {FabricApi, ModA, ModB, ModC, TomlA}

\* f.endswith('.jar')
IsJar(m) == m.ext = "jar"

\* to_remove = [f for f in all_jars if f not in fabric_api]
ToRemove(f) == {m \in f.mods : IsJar(m) /\ ~m.fabric}

\* the sets of jars the loop can have removed when it stops at the first
\* locked one: os.listdir gives the names in no particular order
RemovedBeforeLocked(f) ==
    IF ToRemove(f) \cap f.locked = {} THEN {ToRemove(f)}
    ELSE SUBSET (ToRemove(f) \ f.locked)

\* switch_to_vanilla_mode(); result is the probe's connect_ex result,
\* removed the jars deleted before the loop met a locked one
SwitchToVanilla(f, result, removed) ==
    IF IsServerRunning(result) THEN Result(f, "False", {})
    ELSE IF ~Exists(f, PROPS_VANILLA) THEN Result(f, "False", {})
    ELSE
      LET f1 == Copy(f, PROPS_VANILLA, SERVER_PROPERTIES)
          r2 == IF Exists(f1, PACKWIZ_BOOTSTRAP)
                THEN Rename(f1, PACKWIZ_BOOTSTRAP, PACKWIZ_BOOTSTRAP_DISABLED)
                ELSE Done(f1)
          f3 == IF ~Exists(r2.fs, PACKWIZ_JSON) THEN r2.fs
                ELSE Rename(Remove(r2.fs, PACKWIZ_JSON_BACKUP),
                            PACKWIZ_JSON, PACKWIZ_JSON_BACKUP).fs
          pw_files == {m \in f3.mods : m.ext = "pw.toml"}
      IN  IF ~r2.ok THEN Result(r2.fs, "raise", {"props"})
          ELSE IF ~f3.mods_dir THEN Result(f3, "True", {"props", "disable"})
          ELSE IF ToRemove(f3) \cap f3.locked # {}
          THEN Result([f3 EXCEPT !.mods = f3.mods \ removed], "False",
                      {"props", "disable", "clear"})
          ELSE Result([f3 EXCEPT !.mods = (f3.mods \ ToRemove(f3))
                                             \ (pw_files \ f3.locked)],
                      "True", {"props", "disable", "clear"})

-----------------------------------------------------------------------------
(* The mode functions called one after another on a server directory.      *)

PropsStarts ==
    {[p \in {PROPS_PRODUCTION, PROPS_FRESH, PROPS_VANILLA} |->
         IF p \in missing THEN Absent ELSE p]
       : missing \in {{}, {PROPS_PRODUCTION}, {PROPS_FRESH}, {PROPS_VANILLA}}}

\* the installer and its index under their own names, with or without a
\* stale .disabled / .backup copy next to them, or no installer at all
PackwizStarts ==
    {[p \in PackwizFiles |->
         IF p = PACKWIZ_BOOTSTRAP THEN "installer"
         ELSE IF p = PACKWIZ_JSON THEN "index"
         ELSE IF p \in stale THEN "stale" ELSE Absent]
       : stale \in SUBSET {PACKWIZ_BOOTSTRAP_DISABLED, PACKWIZ_JSON_BACKUP}}
    \cup {[p \in PackwizFiles |-> Absent]}

WorldStarts ==
    {[p \in BackupDirs \cup WorkingDirs |->
         IF p \in present
         THEN (IF p \in BackupDirs THEN "backup of " ELSE "played ") \o p
         ELSE Absent]
       : present \in SUBSET {"world-production", "world-production_nether",
                             "world-local", "world-local_nether"}}

ModsStarts ==
    {[mods_dir |-> FALSE, mods |-> {}, locked |-> {}],
     [mods_dir |-> TRUE, mods |-> {FabricApi, ModA, ModB, TomlA}, locked |-> {}],
     [mods_dir |-> TRUE, mods |-> {FabricApi, ModA, ModB, TomlA}, locked |-> {ModB}]}

ModeStart(platform, props, packwiz, world, mods) ==
    [NoFs EXCEPT
        !.platform = platform,
        !.files = [p \in Paths |->
                     IF p = SERVER_PROPERTIES THEN "properties in use"
                     ELSE IF p \in DOMAIN props THEN props[p]
                     ELSE IF p \in DOMAIN packwiz THEN packwiz[p]
                     ELSE world[p]],
        !.mods_dir = mods.mods_dir, !.mods = mods.mods, !.locked = mods.locked]

ModeInit ==
    /\ client = NewClient(RCON_HOST, RCON_PORT, RCON_PASSWORD)
    /\ socks = <<>>
    /\ net = NoNet
    /\ last = NoCall
    /\ caller = IdleCaller
    /\ \E platform \in {"posix", "windows"}, props \in PropsStarts,
          packwiz \in PackwizStarts, world \in WorldStarts, mods \in ModsStarts :
          fs = ModeStart(platform, props, packwiz, world, mods)
    /\ run = [NoRun EXCEPT !.before = fs]

SwitchToVanillaMode ==
    /\ \E result \in ProbeResults, removed \in RemovedBeforeLocked(fs) :
          LET r == SwitchToVanilla(fs, result, removed)
          IN  /\ fs' = r.fs
              /\ run' = Ran("switch_to_vanilla_mode", <<result>>, r.ret, r.did, fs)
    /\ UNCHANGED rconVars

SwitchToProductionMode ==
    /\ LET r == SwitchToProduction(fs)
       IN  /\ fs' = r.fs
           /\ run' = Ran("switch_to_production_mode", <<>>, r.ret, r.did, fs)
    /\ UNCHANGED rconVars

SwitchToFreshMode ==
    /\ LET r == SwitchToFresh(fs)
       IN  /\ fs' = r.fs
           /\ run' = Ran("switch_to_fresh_mode", <<>>, r.ret, r.did, fs)
    /\ UNCHANGED rconVars

ResetLocalWorld ==
    /\ \E confirm \in BOOLEAN :
          LET r == ResetLocalWorldTo(fs, confirm)
          IN  /\ fs' = r.fs
              /\ run' = Ran("reset_local_world", <<confirm>>, r.ret, r.did, fs)
    /\ UNCHANGED rconVars

ModeNext ==
    \/ SwitchToVanillaMode
    \/ SwitchToProductionMode
    \/ SwitchToFreshMode
    \/ ResetLocalWorld

ModeSpec == ModeInit /\ [][ModeNext]_vars

-----------------------------------------------------------------------------
(* C24: switch_to_vanilla_mode refuses to run while the server is running: *)
(* when is_server_running is true it returns False and leaves              *)
(* server.properties, the packwiz-installer files and the mods directory   *)
(* (and everything else on disk) unchanged.                                *)
C24_VanillaRefusesWhileRunning ==
    (run.fn = "switch_to_vanilla_mode" /\ run.arg[1] = 0) =>
       /\ run.ret = "False"
       /\ run.did = {}
       /\ fs = run.before

\* the refusal happened where the switch had everything to do: the vanilla
\* properties are there, the installer is enabled, mods/ holds jars to clear
C24_Witness ==
    /\ run.fn = "switch_to_vanilla_mode"
    /\ run.arg[1] = 0
    /\ run.ret = "False"
    /\ Exists(fs, PROPS_VANILLA)
    /\ Exists(fs, PACKWIZ_BOOTSTRAP)
    /\ fs.files[SERVER_PROPERTIES] # fs.files[PROPS_VANILLA]
    /\ ToRemove(fs) # {}

-----------------------------------------------------------------------------
(* C25: the production backup is preserved.  No call of                    *)
(* switch_to_production_mode or reset_local_world (or of another mode      *)
(* switch) creates, deletes or modifies world-production or its _nether /  *)
(* _the_end companions; switch_to_production_mode copies the backup into   *)
(* world-local only when world-local does not exist and never changes an   *)
(* existing working folder; reset_local_world changes nothing when         *)
(* world-production is missing.                                            *)
C25_BackupPreserved ==
    /\ \A p \in BackupDirs : fs.files[p] = run.before.files[p]
    /\ run.fn = "switch_to_production_mode" =>
          /\ \A p \in WorkingDirs :
                Exists(run.before, p) => fs.files[p] = run.before.files[p]
          /\ fs.files["world-local"] # run.before.files["world-local"] =>
                /\ ~Exists(run.before, "world-local")
                /\ fs.files["world-local"] = run.before.files["world-production"]
    /\ (run.fn = "reset_local_world" /\ ~Exists(run.before, "world-production")) =>
          (fs = run.before /\ run.ret = "False")

\* reset_local_world has replaced a played-on world-local by the backup,
\* which is still in place
C25_Witness ==
    /\ run.fn = "reset_local_world"
    /\ run.ret = "True"
    /\ run.before.files["world-local"] = "played world-local"
    /\ fs.files["world-local"] = "backup of world-production"
    /\ fs.files["world-production"] = "backup of world-production"
    /\ fs.files["world-local_nether"] = "backup of world-production_nether"

-----------------------------------------------------------------------------
(* C26: disabling and restoring packwiz-installer is a round trip.  If     *)
(* packwiz-installer-bootstrap.jar and packwiz.json exist before           *)
(* switch_to_vanilla_mode, then after any number of mode switches, once    *)
(* restore_packwiz_installer has run (in the production or fresh switch)   *)
(* both files exist under their original names with their content and no  *)
(* .disabled or .backup copy remains; and from a directory that holds them *)
(* under their original names only, each file exists under exactly one of  *)
(* its two names at every point in between.                                *)
OriginalsStart ==
    fs.files[PACKWIZ_BOOTSTRAP] = "installer" /\ fs.files[PACKWIZ_JSON] = "index"

CleanStart ==
    /\ OriginalsStart
    /\ ~Exists(fs, PACKWIZ_BOOTSTRAP_DISABLED)
    /\ ~Exists(fs, PACKWIZ_JSON_BACKUP)

Restored ==
    "restore" \in run.did =>
       /\ fs.files[PACKWIZ_BOOTSTRAP] = "installer"
       /\ fs.files[PACKWIZ_JSON] = "index"
       /\ ~Exists(fs, PACKWIZ_BOOTSTRAP_DISABLED)
       /\ ~Exists(fs, PACKWIZ_JSON_BACKUP)

OneNameEach ==
    /\ {fs.files[PACKWIZ_BOOTSTRAP], fs.files[PACKWIZ_BOOTSTRAP_DISABLED]}
          = {"installer", Absent}
    /\ {fs.files[PACKWIZ_JSON], fs.files[PACKWIZ_JSON_BACKUP]} = {"index", Absent}

-----------------------------------------------------------------------------
(* sync_mods_full.                                                         *)

\* a stale check that looks at the bundled jars only
ExpectedFromOverrides(pack) == {m \in pack.bundled : IsJar(m)}

\* expected_mods: the basenames of the .jar entries under overrides/mods/
\* and of the manifest files whose path is mods/....jar
ExpectedMods(pack) ==
    {m \in pack.bundled : IsJar(m)} \cup {m \in pack.manifest : IsJar(m)}

\* the jars of mods/ the stale step tries to remove
StaleMods(f) == {m \in f.mods : IsJar(m) /\ m \notin ExpectedMods(f.pack)}

FileName(m) == m.name \o "." \o m.ext

\* the two lines the stale step prints for a jar
RemovedStale(m) == "Removed stale: " \o FileName(m)
CannotRemove(m) == "Cannot remove (in use): " \o FileName(m)

\* what the environment answers during one sync_mods_full: the probe, the
\* answer to 'Stop server before syncing?' when it is asked, whether packwiz
\* exports a pack, the bundled jars written before one could not be opened,
\* which of the missing manifest files download
SyncInputs(f) ==
    {in \in [result : ProbeResults, confirm : BOOLEAN, exported : BOOLEAN,
             extracted : SUBSET ({m \in f.pack.bundled : IsJar(m)} \ f.locked),
             fetched : SUBSET (f.pack.manifest \ f.mods)] :
        /\ ~IsServerRunning(in.result) => ~in.confirm
        /\ f.pack.bundled \cap f.mods \cap f.locked = {} => in.extracted = {}}

\* sync_mods_full()
SyncModsFull(f, in) ==
    LET asked == IsServerRunning(in.result)
        d0 == IF asked THEN {"ask", "stop"} ELSE {}
        d1 == d0 \cup (IF f.pack.present THEN {} ELSE {"export"})
        f1 == [f EXCEPT !.pack.present = TRUE, !.mods_dir = TRUE]
        stale == StaleMods(f1)
        f2 == [f1 EXCEPT !.mods = f1.mods \ (stale \ f1.locked)]
        d2 == d1 \cup {"read", "stale"}
                 \cup {RemovedStale(m) : m \in stale \ f1.locked}
                 \cup {CannotRemove(m) : m \in stale \cap f1.locked}
        bundled == {m \in f2.pack.bundled : IsJar(m)}
        f3 == [f2 EXCEPT !.mods = f2.mods \cup bundled]
        missing == f3.pack.manifest \ f3.mods
        f4 == [f3 EXCEPT !.mods = f3.mods \cup (missing \cap in.fetched)]
    IN  IF asked /\ ~in.confirm THEN Result(f, "False", {"ask"})
        ELSE IF ~f.pack.present /\ ~in.exported THEN Result(f, "False", d1)
        ELSE IF ~f1.pack.readable THEN Result(f1, "False", d1 \cup {"open"})
        ELSE IF bundled \cap f2.mods \cap f2.locked # {}
        THEN Result([f2 EXCEPT !.mods = f2.mods \cup in.extracted], "False",
                    d2 \cup {"extract"})
        ELSE Result(f4, IF missing \subseteq in.fetched THEN "True" ELSE "False",
                    d2 \cup {"extract", "download"})

\* the pack: what it bundles, what its manifest lists
PackStarts ==
    {[present |-> present, readable |-> readable,
      bundled |-> content[1], manifest |-> content[2]]
       : present \in BOOLEAN, readable \in BOOLEAN,
         content \in {<<{ModA}, {ModB}>>, <<{ModA}, {}>>, <<{}, {ModB}>>,
                      <<{}, {}>>}}

\* mods/ before the sync, some of its jars held open
SyncModsStarts ==
    {[mods |-> mods, locked |-> locked]
       : mods \in {{}, {ModA, ModC, TomlA}, {FabricApi, ModA, ModB, ModC}},
         locked \in SUBSET {ModA, ModC}}

SyncInit ==
    /\ client = NewClient(RCON_HOST, RCON_PORT, RCON_PASSWORD)
    /\ socks = <<>>
    /\ net = NoNet
    /\ last = NoCall
    /\ caller = IdleCaller
    /\ \E pack \in PackStarts, start \in SyncModsStarts :
          fs = [NoFs EXCEPT !.pack = pack, !.mods = start.mods,
                            !.mods_dir = start.mods # {},
                            !.locked = start.locked \cap start.mods]
    /\ run = [NoRun EXCEPT !.before = fs]

SyncModsFullCall ==
    /\ \E in \in SyncInputs(fs) :
          LET r == SyncModsFull(fs, in)
          IN  /\ fs' = r.fs
              /\ run' = Ran("sync_mods_full", <<in.result, in.confirm>>,
                            r.ret, r.did, fs)
    /\ UNCHANGED rconVars

\* clear_mods(); confirm is the answer to 'Remove non-API mods?', removed
\* the jars and removed_pw the .pw.toml files deleted before os.remove met
\* one held open (PermissionError is not caught here)
ClearModsTo(f, confirm, removed, removed_pw) ==
    LET pw_files == {m \in f.mods : m.ext = "pw.toml"}
        f1 == [f EXCEPT !.mods = f.mods \ ToRemove(f)]
    IN  IF ~f.mods_dir THEN Result(f, "True", {})
        ELSE IF ToRemove(f) = {} THEN Result(f, "True", {})
        ELSE IF ~confirm THEN Result(f, "False", {"ask"})
        ELSE IF ToRemove(f) \cap f.locked # {}
        THEN Result([f EXCEPT !.mods = f.mods \ removed], "raise", {"ask", "clear"})
        ELSE IF pw_files \cap f.locked # {}
        THEN Result([f1 EXCEPT !.mods = f1.mods \ removed_pw], "raise",
                    {"ask", "clear"})
        ELSE Result([f1 EXCEPT !.mods = f1.mods \ pw_files], "True",
                    {"ask", "clear"})

ClearMods ==
    /\ \E confirm \in BOOLEAN, removed \in RemovedBeforeLocked(fs),
          removed_pw \in SUBSET ({m \in fs.mods : m.ext = "pw.toml"} \ fs.locked) :
          LET r == ClearModsTo(fs, confirm, removed, removed_pw)
          IN  /\ fs' = r.fs
              /\ run' = Ran("clear_mods", <<confirm>>, r.ret, r.did, fs)
    /\ UNCHANGED rconVars

SyncNext ==
    \/ SyncModsFullCall
    \/ ClearMods

SyncSpec == SyncInit /\ [][SyncNext]_vars

-----------------------------------------------------------------------------
(* C27: sync_mods_full removes the stale mods: after a run that read the   *)
(* mrpack, every .jar left in mods/ is named in the pack (bundled under    *)
(* overrides/mods/ or listed in the manifest under mods/) or was reported  *)
(* as locked, and no jar named in the pack was removed by the stale step.  *)

NamedInPack(m, pack) == m \in pack.bundled \/ m \in pack.manifest

C27_StaleModsRemoved ==
    (run.fn = "sync_mods_full" /\ "read" \in run.did) =>
       /\ \A m \in fs.mods :
             IsJar(m) => NamedInPack(m, fs.pack) \/ CannotRemove(m) \in run.did
       /\ \A m \in run.before.mods :
             (IsJar(m) /\ NamedInPack(m, run.before.pack)) =>
                /\ m \in fs.mods
                /\ RemovedStale(m) \notin run.did

\* a run that removed one stale jar, reported another as locked and kept a
\* jar of the pack
C27_Witness ==
    /\ run.fn = "sync_mods_full"
    /\ "read" \in run.did
    /\ \E m \in run.before.mods : RemovedStale(m) \in run.did /\ m \notin fs.mods
    /\ \E m \in fs.mods : CannotRemove(m) \in run.did
    /\ \E m \in run.before.mods \cap fs.mods : NamedInPack(m, fs.pack)

-----------------------------------------------------------------------------
(* switch_version and the git helpers.  A version string is the sequence   *)
(* of its characters.                                                      *)

V01 == <<"v", "0", ".", "1">>
V02 == <<"v", "0", ".", "2">>
V09 == <<"v", "0", ".", "9">>
Main == <<"m", "a", "i", "n">>

\* what the user types: a tag, a tag without its 'v', a tag that is not there
Targets == {V01, V02, <<"0", ".", "2">>, V09}

\* the one call that goes wrong during a switch: git status, git stash,
\* git checkout, or os.remove of an old mrpack
Faults == {"none", "status", "stash", "checkout", "remove"}

\* if not target_version.startswith('v'): target_version = f"v{target_version}"
NormalizeVersion(target_version) ==
    IF Len(target_version) > 0 /\ target_version[1] = "v" THEN target_version
    ELSE <<"v">> \o target_version

\* is_mcc_dirty(): git status --porcelain prints a line for every modified
\* tracked file and every untracked file; False when the call fails
IsMccDirty(repo, fault) ==
    IF fault = "status" THEN FALSE ELSE repo.tracked \/ repo.untracked

\* git stash push -m ...: saves and reverts the changes to tracked files;
\* with none it prints 'No local changes to save' and exits 0.  Untracked
\* files stay where they are.
StashMccChanges(repo) ==
    IF repo.tracked
    THEN [repo EXCEPT !.tracked = FALSE, !.stashed = @ + 1]
    ELSE repo

\* git checkout <tag>
CheckoutMccVersion(repo, tag) == [repo EXCEPT !.head = tag]

\* switch_version(target_version, auto_confirm); confirm is the answer to
\* 'Stash changes and continue?', sync what sync_mods_full meets
SwitchVersion(f, target_version, auto_confirm, confirm, fault, sync) ==
    LET tags == f.repo.tags
        target == NormalizeVersion(target_version)
        current_version == f.repo.head
        dirty == IsMccDirty(f.repo, fault)
        d1 == IF dirty /\ ~auto_confirm THEN {"ask stash"} ELSE {}
        d2 == d1 \cup (IF dirty THEN {"stash"} ELSE {})
        f1 == IF dirty THEN [f EXCEPT !.repo = StashMccChanges(f.repo)] ELSE f
        f2 == [f1 EXCEPT !.repo = CheckoutMccVersion(f1.repo, target)]
        f3 == IF fault = "remove" THEN f2 ELSE [f2 EXCEPT !.pack.present = FALSE]
        r == SyncModsFull(f3, sync)
    IN  IF tags = {} THEN Result(f, "False", {})
        ELSE IF target \notin tags THEN Result(f, "False", {})
        ELSE IF current_version = target THEN Result(f, "True", {})
        ELSE IF dirty /\ ~auto_confirm /\ ~confirm THEN Result(f, "False", d1)
        ELSE IF dirty /\ fault = "stash" THEN Result(f, "False", d2)
        ELSE IF fault = "checkout" THEN Result(f1, "False", d2 \cup {"checkout"})
        ELSE Result(r.fs, r.ret, d2 \cup {"checkout", "purge", "sync"} \cup r.did)

\* the MCC repository before the first switch
RepoStarts ==
    {[tags |-> tags, head |-> head, tracked |-> tracked,
      untracked |-> untracked, stashed |-> 0]
       : tags \in {{V01, V02}}, head \in {Main, V01},
         tracked \in BOOLEAN, untracked \in BOOLEAN}
    \cup {NoRepo}

VersionInit ==
    /\ client = NewClient(RCON_HOST, RCON_PORT, RCON_PASSWORD)
    /\ socks = <<>>
    /\ net = NoNet
    /\ last = NoCall
    /\ caller = IdleCaller
    /\ \E repo \in RepoStarts, present \in BOOLEAN :
          fs = [NoFs EXCEPT !.repo = repo, !.mods = {ModA, ModC}, !.mods_dir = TRUE,
                            !.pack = [present |-> present, readable |-> TRUE,
                                      bundled |-> {ModA}, manifest |-> {ModB}]]
    /\ run = [NoRun EXCEPT !.before = fs]

\* both callers of switch_version leave auto_confirm at its default.
\* The answers 'Stash changes and continue?' can get: it is asked only
\* about a repository with changes
Answers(repo) == IF repo.tracked \/ repo.untracked THEN BOOLEAN ELSE {FALSE}

SwitchVersionCall ==
    /\ \E target_version \in Targets, auto_confirm \in {FALSE},
          confirm \in Answers(fs.repo), fault \in Faults,
          sync \in SyncInputs(fs) :
          LET r == SwitchVersion(fs, target_version, auto_confirm, confirm,
                                 fault, sync)
          IN  /\ fs' = r.fs
              /\ run' = Ran("switch_version",
                            <<target_version, auto_confirm, confirm, fault>>,
                            r.ret, r.did, fs)
    /\ UNCHANGED rconVars

VersionNext == SwitchVersionCall

VersionSpec == VersionInit /\ [][VersionNext]_vars

-----------------------------------------------------------------------------
(* C28: switch_version never checks out a tag over uncommitted changes:    *)
(* when the repository is dirty the checkout happens only after the        *)
(* changes were stashed; when the user declines the stash or the stash     *)
(* fails, and when the target tag does not exist or is already current,    *)
(* there is no checkout, no mrpack deletion and no mod sync (and, in the   *)
(* first two cases, the result is False).                                  *)

\* uncommitted changes in the working tree
Uncommitted(repo) == repo.tracked \/ repo.untracked

NothingSwitched ==
    /\ run.did \cap {"checkout", "purge", "sync"} = {}
    /\ fs.repo.head = run.before.repo.head
    /\ fs.pack = run.before.pack
    /\ fs.mods = run.before.mods

C28_NoCheckoutOverChanges ==
    run.fn = "switch_version" =>
       LET target == NormalizeVersion(run.arg[1])
       IN  /\ "checkout" \in run.did => ~Uncommitted(fs.repo)
           /\ ("ask stash" \in run.did /\ ~run.arg[3]) =>
                 run.ret = "False" /\ NothingSwitched
           /\ ("stash" \in run.did /\ run.arg[4] = "stash") =>
                 run.ret = "False" /\ NothingSwitched
           /\ target \notin run.before.repo.tags => NothingSwitched
           /\ target = run.before.repo.head => NothingSwitched

====
